---- MODULE Spec2Model ----
(***************************************************************************)
(* The Node runtime of gomavlib (node.go): the channel set guarded by      *)
(* channelsMutex, the write primitives writeTo / writeAll / writeExcept    *)
(* with their completion tokens on writeDone, createChannel, and Close     *)
(* with its event drainer, wait group join and close(eventChan).           *)
(*                                                                         *)
(* Channel, channelAccepter and nodeHeartbeat are types of the package     *)
(* whose files are not part of the sources at hand; their tasks are        *)
(* modelled from the specification (sections 4.5, 4.6, 4.7, 5 and 7).      *)
(***************************************************************************)
EXTENDS Naturals, Sequences, FiniteSets

\* ------------------------------------------------------------------ bounds

\* Channel identities 1..MaxChans: the construction-time channel plus the
\* channels an acceptor may create.
MaxChans == 2

\* Frames (or parse errors) the read tasks may read from their transports, all
\* channels together.
MaxFrames == 1

\* Longest list of endpoints NewNode is called with.
MaxEndpoints == 3

\* Largest system id NewNode is called with.
MaxSystemId == 2

\* Largest value of the wall clock and of an inbound signature timestamp.
MaxClock == 3

\* Signed frames written on the channel.
MaxSigned == 3

\* ------------------------------------------------------------ configuration

\* Channels created by NewNode from single-channel endpoints.
ConstructionChans == {1}

\* channelAccepters created by NewNode from acceptor endpoints.
Accepters == {"ca1"}

\* Callers of the write primitives: the user and the heartbeat emitter.
Writers == {"user", "hb"}

Chans == 1..MaxChans

\* The channel argument of a call that takes none.
NoChan == MaxChans + 1

Free == "free"

\* Capacity of a channel's write queue.
WriteChanCap == 1

\* The steps of start, in program order.
StartOrder == <<"heartbeat", "channels", "accepters">>

\* The steps of Close, in program order.
CloseOrder == <<"hb", "acc", "chs", "drain", "wait", "closeEv">>

IdleOp == [kind |-> "none", arg |-> NoChan]

\* The write primitives: writeTo, writeAll, writeExcept.
Kinds == {"to", "all", "except"}

VARIABLES
    channels,       \* n.channels: the registered channels
    channelsMutex,  \* holder of n.channelsMutex, or Free
    wg,             \* n.wg: tasks registered and not yet done
    eventClosed,    \* number of times close(n.eventChan) has run
    nchan,          \* channels created so far (identities 1..nchan)
    cpc,            \* Close: 0 not called, i about to run CloseOrder[i], 7 returned
    ctodo,          \* Close: channels left to stop while it holds the mutex
    closeLog,       \* Close: the steps issued so far, in order
    clocked,        \* Close holds the channels mutex
    drainer,        \* the goroutine of Close that ranges over Events() runs
    hbStop,         \* nodeHeartbeat.close() has been issued
    accStop,        \* accepters whose close() has been issued
    apc,            \* per accepter: position of its accept loop
    rpc,            \* per channel: position of the read task
    tpc,            \* per channel: position of the write task
    titem,          \* per channel: caller whose item the write task is acknowledging
    twrote,         \* per channel: outcome of the write being acknowledged
    rwc,            \* per channel: the transport, "open" or "closed" (closed or failed)
    nodeClosed,     \* channels stopped by Close
    writeChan,      \* per channel: the write queue
    wcClosed,       \* channels whose write queue has been closed
    produced,       \* per channel: events the read task produced, in order
    recvd,          \* per channel: its events received from the event stream
    wpc,            \* per caller: position inside the write primitive
    wop,            \* per caller: the primitive called and its channel argument
    wsnap,          \* per caller: n.channels when the call acquired the mutex
    wtodo,          \* per caller: channels the range loop has still to visit
    wsent,          \* per caller: per channel, enqueues made by this call
    wrecv,          \* per caller: completion tokens received by this call
    conf,           \* NewNode: the NodeConf it was called with
    npc,            \* NewNode: position inside the function
    nidx,           \* NewNode: index of the endpoint the loop is at
    channelAccepters, \* n.channelAccepters
    nodeHeartbeat,  \* n.nodeHeartbeat is not nil
    closedAtInit,   \* NewNode: channels and accepters closed on an endpoint error
    spc,            \* n.start(): i about to run StartOrder[i]
    startLog,       \* n.start(): the tasks started so far, in order
    nret,           \* NewNode: what it returned
    sigNow,         \* signing: the wall clock, in 10 us units since the epoch
    lastTxTimestamp, \* signing: the transmit timestamp counter of the channel
    txLog,          \* signing: timestamp and clock of the signed frames written
    hwm,            \* verifying: high-water mark per (link id, system id, component id)
    lastRx          \* verifying: the last inbound frame and its verdict

vars == <<channels, channelsMutex, wg, eventClosed, nchan, cpc, ctodo, closeLog,
          clocked, drainer, hbStop, accStop, apc, rpc, tpc, titem, twrote, rwc,
          nodeClosed, writeChan, wcClosed, produced, recvd, wpc, wop, wsnap,
          wtodo, wsent, wrecv, conf, npc, nidx, channelAccepters, nodeHeartbeat,
          closedAtInit, spc, startLog, nret, sigNow, lastTxTimestamp, txLog, hwm,
          lastRx>>

nodeVars == <<channels, channelsMutex, wg, eventClosed, nchan>>
closeVars == <<cpc, ctodo, closeLog, clocked, drainer>>
stopVars == <<hbStop, accStop, nodeClosed>>
readVars == <<rpc, produced, recvd>>
taskVars == <<tpc, titem, twrote, writeChan, wcClosed>>
callVars == <<wpc, wop, wsnap, wtodo, wsent, wrecv>>
newNodeVars == <<conf, npc, nidx, channelAccepters, nodeHeartbeat, closedAtInit,
                 spc, startLog, nret>>

\* The variables of the parts of the package that the running Node leaves alone.
sigVars == <<sigNow, lastTxTimestamp, txLog, hwm, lastRx>>
auxVars == <<newNodeVars, sigVars>>

\* ------------------------------------------------------------------ helpers

NoSent == [c \in Chans |-> 0]

RECURSIVE SumOver(_, _)
SumOver(f, S) ==
    IF S = {} THEN 0
    ELSE LET c == CHOOSE x \in S : TRUE IN f[c] + SumOver(f, S \ {c})

\* Enqueues made by the current call of caller w.
SentTotal(w) == SumOver(wsent[w], Chans)

OpenEvent == <<"open", 0>>
CloseEvent == <<"close", 0>>

Last(s) == s[Len(s)]

\* Frames and parse errors the read task of ch has produced.
FramesRead(ch) ==
    Cardinality({i \in 1..Len(produced[ch]) : produced[ch][i][1] = "frame"})

\* Frames and parse errors the read tasks of the channels in S have produced.
RECURSIVE FramesReadBy(_)
FramesReadBy(S) ==
    IF S = {} THEN 0
    ELSE LET c == CHOOSE x \in S : TRUE IN FramesRead(c) + FramesReadBy(S \ {c})

\* -------------------------------------------------------------------- Init

\* The (link id, system id, component id) of the inbound signed frames.
Triples == {<<0, 1, 1>>, <<0, 1, 2>>, <<1, 1, 1>>}

NoFrame == [triple |-> <<0, 0, 0>>, ts |-> 0, signed |-> FALSE, sigOk |-> FALSE,
            verdict |-> "none"]

\* The signing state of a channel that has neither written nor read a frame.
SignatureIdle ==
    /\ sigNow = 0
    /\ lastTxTimestamp = 0
    /\ txLog = <<>>
    /\ hwm = [t \in Triples |-> 0]
    /\ lastRx = NoFrame

\* The configuration of the running Node: a single-channel endpoint and an
\* accepter endpoint, the heartbeat enabled.
RunningConf ==
    [OutSystemId |-> 1, Endpoints |-> <<"single", "accepter">>,
     OutSignatureKey |-> FALSE, OutVersion |-> "V2", HeartbeatDisable |-> FALSE]

\* NewNode has returned the Node.
NewNodeDone ==
    /\ conf = RunningConf
    /\ npc = "returned"
    /\ nidx = Len(RunningConf.Endpoints) + 1
    /\ channelAccepters = Accepters
    /\ nodeHeartbeat = TRUE
    /\ closedAtInit = {}
    /\ spc = Len(StartOrder) + 1
    /\ startLog = <<>>
    /\ nret = "node"

\* The state when NewNode returns: the heartbeat, the construction-time
\* channels and the accepters are registered and started.
Init ==
    /\ NewNodeDone
    /\ SignatureIdle
    /\ channels = ConstructionChans
    /\ channelsMutex = Free
    /\ wg = 1 + 2 * Cardinality(ConstructionChans) + Cardinality(Accepters)
    /\ eventClosed = 0
    /\ nchan = Cardinality(ConstructionChans)
    /\ cpc = 0
    /\ ctodo = {}
    /\ closeLog = <<>>
    /\ clocked = FALSE
    /\ drainer = FALSE
    /\ hbStop = FALSE
    /\ accStop = {}
    /\ apc = [a \in Accepters |-> "accept"]
    /\ rpc = [c \in Chans |-> IF c \in ConstructionChans THEN "send" ELSE "none"]
    /\ tpc = [c \in Chans |-> IF c \in ConstructionChans THEN "recv" ELSE "none"]
    /\ titem = [c \in Chans |-> "none"]
    /\ twrote = [c \in Chans |-> "none"]
    /\ rwc = [c \in Chans |-> "open"]
    /\ nodeClosed = {}
    /\ writeChan = [c \in Chans |-> <<>>]
    /\ wcClosed = {}
    /\ produced = [c \in Chans |-> IF c \in ConstructionChans THEN <<OpenEvent>> ELSE <<>>]
    /\ recvd = [c \in Chans |-> <<>>]
    /\ wpc = [w \in Writers |-> "idle"]
    /\ wop = [w \in Writers |-> IdleOp]
    /\ wsnap = [w \in Writers |-> {}]
    /\ wtodo = [w \in Writers |-> {}]
    /\ wsent = [w \in Writers |-> NoSent]
    /\ wrecv = [w \in Writers |-> 0]

\* ------------------------------------------------- the channels mutex

\* Variant: the write primitives do not take the channels mutex.
WriterLockSkipped == TRUE

\* n.channelsMutex.Lock() of writeTo, writeAll and writeExcept returns.
WriterLockGranted == channelsMutex = Free

\* Variant: createChannel registers without the channels mutex.
CreateLockSkipped == TRUE

\* n.channelsMutex.Lock() of createChannel returns.
CreateLockGranted == channelsMutex = Free

\* Variant: Close stops the channels without taking the channels mutex.
CloseLockSkipped == TRUE

\* n.channelsMutex.Lock() of the closure in Close returns.
CloseLockGranted == channelsMutex = Free

\* The read task of a channel acquires the channels mutex to deregister.
ReaderLockGranted == channelsMutex = Free

\* ------------------------------------------------------ write primitives

\* Variant: writeTo fans out to every channel.
writeToTargetsAll(channel, chs) == chs

\* Variant: writeTo without the test of n.channels[channel].
writeToTargetsNoTest(channel, chs) == {channel}

\* writeTo: the channel if it is registered, nothing otherwise.
writeToTargets(channel, chs) == IF channel \in chs THEN {channel} ELSE {}

\* Variant: writeAll misses the channel with the highest identity.
writeAllTargetsSkipOne(chs) ==
    IF chs = {} THEN {} ELSE chs \ {CHOOSE c \in chs : \A d \in chs : d <= c}

\* writeAll: the range over n.channels.
writeAllTargets(chs) == chs

\* Variant: writeExcept without the test channel != exceptChannel.
writeExceptTargetsNoTest(exceptChannel, chs) == chs

\* writeExcept: the range over n.channels with the test channel != exceptChannel.
writeExceptTargets(exceptChannel, chs) == chs \ {exceptChannel}

\* The channels a call enqueues to, given n.channels at the time of the lock.
WriteTargets(op, chs) ==
    CASE op.kind = "to" -> writeToTargets(op.arg, chs)
      [] op.kind = "all" -> writeAllTargets(chs)
      [] op.kind = "except" -> writeExceptTargets(op.arg, chs)

\* Variant: the primitive returns without receiving its completion tokens.
TokensNotAwaited(w) == TRUE

\* Variant: the primitive defers one receive more than it has enqueued.
TokensOverAwaited(w) == wrecv[w] = SentTotal(w) + 1

\* Every deferred <-n.writeDone of the call has returned.
TokensReceived(w) == wrecv[w] = SentTotal(w)

\* The user calls WriteMessageTo/WriteFrameTo, ...All or ...Except. Until
\* the call has the mutex nothing depends on which of them it is, nor on
\* its channel argument: they are drawn when the mutex is granted.
UserCall ==
    /\ wpc["user"] = "idle"
    /\ cpc = 0
    /\ wpc' = [wpc EXCEPT !["user"] = "lock"]
    /\ UNCHANGED <<nodeVars, closeVars, stopVars, apc, readVars, taskVars, rwc,
                   wop, wsnap, wtodo, wsent, wrecv>>
    /\ UNCHANGED auxVars

\* A tick of the heartbeat emitter: it calls WriteMessageAll.
HeartbeatTick ==
    /\ wpc["hb"] = "idle"
    /\ ~hbStop
    /\ wpc' = [wpc EXCEPT !["hb"] = "lock"]
    /\ UNCHANGED <<nodeVars, closeVars, stopVars, apc, readVars, taskVars, rwc,
                   wop, wsnap, wtodo, wsent, wrecv>>
    /\ UNCHANGED auxVars

\* The primitives a caller calls: the heartbeat emitter writeAll, the user
\* any of the three, writeTo and writeExcept with a channel, registered or
\* not.
CallOf(w, kind, arg) ==
    /\ w = "hb" => kind = "all"
    /\ IF kind = "all" THEN arg = NoChan ELSE arg \in Chans

\* n.channelsMutex.Lock() at the head of a write primitive; the range loop
\* (or the membership test of writeTo) is over n.channels as it is now.
WriteLock(w, kind, arg) ==
    /\ wpc[w] = "lock"
    /\ CallOf(w, kind, arg)
    /\ WriterLockGranted
    /\ channelsMutex' = w
    /\ wop' = [wop EXCEPT ![w] = [kind |-> kind, arg |-> arg]]
    /\ wsnap' = [wsnap EXCEPT ![w] = channels]
    /\ wtodo' = [wtodo EXCEPT ![w] = WriteTargets([kind |-> kind, arg |-> arg], channels)]
    /\ wpc' = [wpc EXCEPT ![w] =
                 IF WriteTargets([kind |-> kind, arg |-> arg], channels) = {}
                   THEN "acks" ELSE "send"]
    /\ UNCHANGED <<channels, wg, eventClosed, nchan, closeVars, stopVars, apc,
                   readVars, taskVars, rwc, wsent, wrecv>>
    /\ UNCHANGED auxVars

\* channel.writeChan <- what, for one channel of the range loop.
WriteEnqueue(w, ch) ==
    /\ wpc[w] = "send"
    /\ ch \in wtodo[w]
    /\ Len(writeChan[ch]) < WriteChanCap
    /\ ch \notin wcClosed
    /\ writeChan' = [writeChan EXCEPT ![ch] = Append(@, w)]
    /\ wsent' = [wsent EXCEPT ![w][ch] = @ + 1]
    /\ wtodo' = [wtodo EXCEPT ![w] = @ \ {ch}]
    /\ wpc' = [wpc EXCEPT ![w] = IF wtodo[w] = {ch} THEN "acks" ELSE "send"]
    /\ UNCHANGED <<nodeVars, closeVars, stopVars, apc, readVars, tpc, titem, twrote,
                   wcClosed, rwc, wop, wsnap, wrecv>>
    /\ UNCHANGED auxVars

\* Variant: a token is received inside the range loop, after each enqueue.
TokenReceiveInLoop(w) == wpc[w] \in {"send", "acks"}

\* The receives from n.writeDone are deferred: they run when the range loop
\* is over (writeTo: after its one enqueue).
TokenReceiveDeferred(w) == wpc[w] = "acks"

\* <-n.writeDone: the call receives the token a write task is sending.
WriteRecvToken(w, ch) ==
    /\ TokenReceiveDeferred(w)
    /\ wrecv[w] < SentTotal(w)
    /\ tpc[ch] = "ack"
    /\ wrecv' = [wrecv EXCEPT ![w] = @ + 1]
    /\ tpc' = [tpc EXCEPT ![ch] = "recv"]
    /\ titem' = [titem EXCEPT ![ch] = "none"]
    /\ twrote' = [twrote EXCEPT ![ch] = "none"]
    /\ UNCHANGED <<nodeVars, closeVars, stopVars, apc, readVars, writeChan,
                   wcClosed, rwc, wpc, wop, wsnap, wtodo, wsent>>
    /\ UNCHANGED auxVars

\* The deferred n.channelsMutex.Unlock(), which runs after the token
\* receives; the primitive returns to its caller. The heartbeat emitter, back
\* in its loop, returns when it has been stopped (n.wg.Done()).
WriteUnlock(w) ==
    /\ wpc[w] = "acks"
    /\ TokensReceived(w)
    /\ channelsMutex' = Free
    /\ IF w = "hb" /\ hbStop
         THEN wpc' = [wpc EXCEPT ![w] = "done"] /\ wg' = wg - 1
         ELSE wpc' = [wpc EXCEPT ![w] = "idle"] /\ wg' = wg
    /\ wop' = [wop EXCEPT ![w] = IdleOp]
    /\ wsnap' = [wsnap EXCEPT ![w] = {}]
    /\ wtodo' = [wtodo EXCEPT ![w] = {}]
    /\ wsent' = [wsent EXCEPT ![w] = NoSent]
    /\ wrecv' = [wrecv EXCEPT ![w] = 0]
    /\ UNCHANGED <<channels, eventClosed, nchan, closeVars, stopVars, apc,
                   readVars, taskVars, rwc>>
    /\ UNCHANGED auxVars

\* ------------------------------------------------------- channel tasks

\* Variant: the event stream loses the first event a channel hands over.
DeliveredEventFirstLost(ch) ==
    IF Len(produced[ch]) = 1 THEN <<>> ELSE <<Last(produced[ch])>>

\* n.eventChan is unbuffered: what a receive takes from the read task of ch
\* is the event the task is blocked sending.
DeliveredEvent(ch) == <<Last(produced[ch])>>

\* Variant: a failed transport write skips the completion token.
AckSkippedOnFailure(ok) == IF ok THEN "ack" ELSE "recv"

\* After the transport write, failed or not, the write task sends its token.
AfterWrite(ok) == "ack"

\* The read task parses a frame, or fails to parse one, and produces the
\* Frame or ParseError event; it then blocks sending it on n.eventChan.
ReadFrame(ch) ==
    /\ rpc[ch] = "read"
    /\ rwc[ch] = "open"
    /\ FramesReadBy(Chans) < MaxFrames
    /\ produced' = [produced EXCEPT ![ch] = Append(@, <<"frame", Len(@)>>)]
    /\ rpc' = [rpc EXCEPT ![ch] = "send"]
    /\ UNCHANGED <<nodeVars, closeVars, stopVars, apc, taskVars, rwc, recvd,
                   callVars>>
    /\ UNCHANGED auxVars

\* The read task closes the channel: under the channels mutex it leaves
\* n.channels and the write queue is closed, on which the idle write task
\* returns (n.wg.Done()); the read task then produces ChannelClose.
Deregistration(ch) ==
    /\ ReaderLockGranted
    /\ channels' = channels \ {ch}
    /\ wcClosed' = wcClosed \cup {ch}
    /\ produced' = [produced EXCEPT ![ch] = Append(@, CloseEvent)]
    /\ rpc' = [rpc EXCEPT ![ch] = "send"]
    /\ IF tpc[ch] = "recv" /\ writeChan[ch] = <<>>
         THEN tpc' = [tpc EXCEPT ![ch] = "done"] /\ wg' = wg - 1
         ELSE UNCHANGED <<tpc, wg>>
    /\ UNCHANGED <<channelsMutex, eventClosed, nchan, closeVars, stopVars, apc,
                   titem, twrote, writeChan, recvd, callVars>>
    /\ UNCHANGED auxVars

\* The peer or the transport fails under the read: a stream error, on which
\* the read task closes the channel.
PeerError(ch) ==
    /\ rpc[ch] = "read"
    /\ rwc[ch] = "open"
    /\ rwc' = [rwc EXCEPT ![ch] = "closed"]
    /\ Deregistration(ch)

\* The read on a transport that has been closed, or on which a write has
\* failed, returns a stream error, on which the read task closes the channel.
ReadDeregister(ch) ==
    /\ rpc[ch] = "read"
    /\ rwc[ch] # "open"
    /\ rwc' = rwc
    /\ Deregistration(ch)

\* A receive from n.eventChan meets the send of the read task of ch; after
\* ChannelClose the read task returns (n.wg.Done()).
EventReceived(ch) ==
    /\ rpc[ch] = "send"
    /\ recvd' = [recvd EXCEPT ![ch] = @ \o DeliveredEvent(ch)]
    /\ IF Last(produced[ch]) = CloseEvent
         THEN rpc' = [rpc EXCEPT ![ch] = "done"] /\ wg' = wg - 1
         ELSE rpc' = [rpc EXCEPT ![ch] = "read"] /\ wg' = wg

\* The user receives from Events().
UserRecv(ch) ==
    /\ eventClosed = 0
    /\ EventReceived(ch)
    /\ UNCHANGED <<channels, channelsMutex, eventClosed, nchan, closeVars, stopVars,
                   apc, taskVars, rwc, produced, callVars>>
    /\ UNCHANGED auxVars

\* The goroutine started by Close receives from Events().
DrainRecv(ch) ==
    /\ drainer
    /\ EventReceived(ch)
    /\ UNCHANGED <<channels, channelsMutex, eventClosed, nchan, closeVars, stopVars,
                   apc, taskVars, rwc, produced, callVars>>
    /\ UNCHANGED auxVars

\* The write task takes an item from its queue and writes it to the
\* transport; the write fails when the transport is closed, and may fail
\* when it is open, which closes it.
TaskWrite(ch, ok) ==
    /\ tpc[ch] = "recv"
    /\ writeChan[ch] # <<>>
    /\ ok => rwc[ch] = "open"
    /\ writeChan' = [writeChan EXCEPT ![ch] = Tail(@)]
    /\ titem' = [titem EXCEPT ![ch] = IF AfterWrite(ok) = "ack"
                                         THEN Head(writeChan[ch]) ELSE "none"]
    /\ twrote' = [twrote EXCEPT ![ch] = IF AfterWrite(ok) # "ack" THEN "none"
                                           ELSE IF ok THEN "ok" ELSE "failed"]
    /\ tpc' = [tpc EXCEPT ![ch] = AfterWrite(ok)]
    /\ rwc' = [rwc EXCEPT ![ch] = IF ok THEN @ ELSE "closed"]
    /\ UNCHANGED <<nodeVars, closeVars, stopVars, apc, readVars, wcClosed, callVars>>
    /\ UNCHANGED auxVars

\* ------------------------------------------------------------ accepters

\* The accept loop gets a new peer and calls createChannel: under the
\* channels mutex, newChannel and n.channels[ch] = struct{}{}.
createChannel(a) ==
    /\ apc[a] = "accept"
    /\ a \notin accStop
    /\ nchan < MaxChans
    /\ CreateLockGranted
    /\ nchan' = nchan + 1
    /\ channels' = channels \cup {nchan + 1}
    /\ rpc' = [rpc EXCEPT ![nchan + 1] = "new"]
    /\ tpc' = [tpc EXCEPT ![nchan + 1] = "new"]
    /\ apc' = [apc EXCEPT ![a] = "start"]
    /\ UNCHANGED <<channelsMutex, wg, eventClosed, closeVars, stopVars, titem, twrote,
                   writeChan, wcClosed, rwc, produced, recvd, callVars>>
    /\ UNCHANGED auxVars

\* The accepter starts the channel it created: the read and the write task
\* join n.wg, and the read task produces ChannelOpen.
AcceptStart(a) ==
    /\ apc[a] = "start"
    /\ \E ch \in Chans :
         /\ rpc[ch] = "new"
         /\ rpc' = [rpc EXCEPT ![ch] = "send"]
         /\ tpc' = [tpc EXCEPT ![ch] = "recv"]
         /\ produced' = [produced EXCEPT ![ch] = <<OpenEvent>>]
    /\ wg' = wg + 2
    /\ apc' = [apc EXCEPT ![a] = "accept"]
    /\ UNCHANGED <<channels, channelsMutex, eventClosed, nchan, closeVars, stopVars,
                   titem, twrote, writeChan, wcClosed, rwc, recvd, callVars>>
    /\ UNCHANGED auxVars

\* ---------------------------------------------------------------- Close

\* Variant: Close closes the event stream before it waits for the tasks.
CloseProgramCloseBeforeJoin == <<"hb", "acc", "chs", "drain", "closeEv", "wait">>

\* Variant: Close stops the channels before the accepters.
CloseProgramChannelsFirst == <<"hb", "chs", "acc", "drain", "wait", "closeEv">>

\* The statements of Close in the order the function runs them.
CloseProgram == CloseOrder

\* Close is about to run the step called name.
CloseAt(name) == cpc \in 1..Len(CloseProgram) /\ CloseProgram[cpc] = name

\* Variant: Close does not start the goroutine that consumes the events.
DrainerNotStarted == FALSE

\* go func() { for range n.Events() {} }()
DrainerStarted == TRUE

\* Variant: Close does not wait for the tasks.
WaitSkipped == TRUE

\* n.wg.Wait() returns.
WaitReturns == wg = 0

\* The user calls Close.
CloseCall ==
    /\ cpc = 0
    /\ cpc' = 1
    /\ UNCHANGED <<nodeVars, ctodo, closeLog, clocked, drainer, stopVars, apc,
                   readVars, taskVars, rwc, callVars>>
    /\ UNCHANGED auxVars

\* n.nodeHeartbeat.close(): the emitter is told to stop; idle between two
\* ticks it returns (n.wg.Done()), inside WriteMessageAll it first finishes.
CloseHeartbeat ==
    /\ CloseAt("hb")
    /\ hbStop' = TRUE
    /\ IF wpc["hb"] = "idle"
         THEN wpc' = [wpc EXCEPT !["hb"] = "done"] /\ wg' = wg - 1
         ELSE UNCHANGED <<wpc, wg>>
    /\ closeLog' = Append(closeLog, "hb")
    /\ cpc' = cpc + 1
    /\ UNCHANGED <<channels, channelsMutex, eventClosed, nchan, ctodo, clocked,
                   drainer, accStop, nodeClosed, apc, readVars, taskVars, rwc,
                   wop, wsnap, wtodo, wsent, wrecv>>
    /\ UNCHANGED auxVars

\* ca.close() for one accepter of the range over n.channelAccepters; the
\* close interrupts the accept the accepter is blocked in, and the accept
\* loop returns (n.wg.Done()).
CloseAccepter(a) ==
    /\ CloseAt("acc")
    /\ a \notin accStop
    /\ apc[a] = "accept"
    /\ accStop' = accStop \cup {a}
    /\ apc' = [apc EXCEPT ![a] = "done"]
    /\ wg' = wg - 1
    /\ closeLog' = Append(closeLog, "acc")
    /\ cpc' = IF accStop \cup {a} = Accepters THEN cpc + 1 ELSE cpc
    /\ UNCHANGED <<channels, channelsMutex, eventClosed, nchan, ctodo, clocked,
                   drainer, hbStop, nodeClosed, readVars, taskVars, rwc, callVars>>
    /\ UNCHANGED auxVars

\* n.channelsMutex.Lock() of the closure that stops the channels.
CloseLock ==
    /\ CloseAt("chs")
    /\ ~clocked
    /\ CloseLockGranted
    /\ channelsMutex' = "close"
    /\ clocked' = TRUE
    /\ ctodo' = channels
    /\ UNCHANGED <<channels, wg, eventClosed, nchan, cpc, closeLog, drainer,
                   stopVars, apc, readVars, taskVars, rwc, callVars>>
    /\ UNCHANGED auxVars

\* ch.close() for one channel of the range over n.channels: the transport
\* of the channel is closed.
CloseChannel(ch) ==
    /\ CloseAt("chs")
    /\ clocked
    /\ ch \in ctodo
    /\ ctodo' = ctodo \ {ch}
    /\ nodeClosed' = nodeClosed \cup {ch}
    /\ rwc' = [rwc EXCEPT ![ch] = "closed"]
    /\ closeLog' = Append(closeLog, "ch")
    /\ UNCHANGED <<nodeVars, cpc, clocked, drainer, hbStop, accStop, apc, readVars,
                   taskVars, callVars>>
    /\ UNCHANGED auxVars

\* The deferred n.channelsMutex.Unlock() of the closure.
CloseUnlock ==
    /\ CloseAt("chs")
    /\ clocked
    /\ ctodo = {}
    /\ channelsMutex' = Free
    /\ clocked' = FALSE
    /\ cpc' = cpc + 1
    /\ UNCHANGED <<channels, wg, eventClosed, nchan, ctodo, closeLog, drainer,
                   stopVars, apc, readVars, taskVars, rwc, callVars>>
    /\ UNCHANGED auxVars

\* Close starts the goroutine that consumes the events.
CloseDrain ==
    /\ CloseAt("drain")
    /\ drainer' = DrainerStarted
    /\ closeLog' = Append(closeLog, "drain")
    /\ cpc' = cpc + 1
    /\ UNCHANGED <<nodeVars, ctodo, clocked, stopVars, apc, readVars, taskVars,
                   rwc, callVars>>
    /\ UNCHANGED auxVars

\* n.wg.Wait()
CloseWait ==
    /\ CloseAt("wait")
    /\ WaitReturns
    /\ closeLog' = Append(closeLog, "join")
    /\ cpc' = cpc + 1
    /\ UNCHANGED <<nodeVars, ctodo, clocked, drainer, stopVars, apc, readVars,
                   taskVars, rwc, callVars>>
    /\ UNCHANGED auxVars

\* close(n.eventChan); the range of the drainer ends.
CloseEvents ==
    /\ CloseAt("closeEv")
    /\ eventClosed' = eventClosed + 1
    /\ drainer' = FALSE
    /\ closeLog' = Append(closeLog, "closeEv")
    /\ cpc' = cpc + 1
    /\ UNCHANGED <<channels, channelsMutex, wg, nchan, ctodo, clocked, stopVars,
                   apc, readVars, taskVars, rwc, callVars>>
    /\ UNCHANGED auxVars

\* ----------------------------------------------------------- specification

Next ==
    \/ UserCall
    \/ HeartbeatTick
    \/ \E w \in Writers : \E kind \in Kinds : \E arg \in Chans \cup {NoChan} :
         WriteLock(w, kind, arg)
    \/ \E w \in Writers : \E ch \in Chans : WriteEnqueue(w, ch)
    \/ \E w \in Writers : \E ch \in Chans : WriteRecvToken(w, ch)
    \/ \E w \in Writers : WriteUnlock(w)
    \/ \E ch \in Chans : ReadFrame(ch)
    \/ \E ch \in Chans : PeerError(ch)
    \/ \E ch \in Chans : ReadDeregister(ch)
    \/ \E ch \in Chans : UserRecv(ch)
    \/ \E ch \in Chans : DrainRecv(ch)
    \/ \E ch \in Chans : \E ok \in BOOLEAN : TaskWrite(ch, ok)
    \/ \E a \in Accepters : createChannel(a)
    \/ \E a \in Accepters : AcceptStart(a)
    \/ CloseCall
    \/ CloseHeartbeat
    \/ \E a \in Accepters : CloseAccepter(a)
    \/ CloseLock
    \/ \E ch \in Chans : CloseChannel(ch)
    \/ CloseUnlock
    \/ CloseDrain
    \/ CloseWait
    \/ CloseEvents

Spec == Init /\ [][Next]_vars

\* What the scheduler guarantees: a goroutine that can take a step takes it,
\* and a goroutine blocked in n.channelsMutex.Lock() gets the mutex although
\* others keep taking it (sync.Mutex hands a starving waiter the lock). The
\* calls of the user (a write primitive, Close, a receive from Events()), the
\* ticks of the heartbeat, the new peers, the frames and the failures of the
\* peers are under no obligation to happen.
Fairness ==
    /\ \A w \in Writers :
         SF_vars(\E kind \in Kinds : \E arg \in Chans \cup {NoChan} : WriteLock(w, kind, arg))
    /\ \A w \in Writers : WF_vars(\E ch \in Chans : WriteEnqueue(w, ch))
    /\ \A w \in Writers : WF_vars(\E ch \in Chans : WriteRecvToken(w, ch))
    /\ \A w \in Writers : WF_vars(WriteUnlock(w))
    /\ \A ch \in Chans : SF_vars(ReadDeregister(ch))
    /\ \A ch \in Chans : WF_vars(DrainRecv(ch))
    /\ \A ch \in Chans : WF_vars(\E ok \in BOOLEAN : TaskWrite(ch, ok))
    /\ \A a \in Accepters : WF_vars(AcceptStart(a))
    /\ WF_vars(CloseHeartbeat)
    /\ WF_vars(\E a \in Accepters : CloseAccepter(a))
    /\ SF_vars(CloseLock)
    /\ WF_vars(\E ch \in Chans : CloseChannel(ch))
    /\ WF_vars(CloseUnlock)
    /\ WF_vars(CloseDrain)
    /\ WF_vars(CloseWait)
    /\ WF_vars(CloseEvents)

FairSpec == Spec /\ Fairness

CloseCalled == cpc >= 1

CloseReturned == cpc = Len(CloseProgram) + 1

\* The user keeps receiving from Events(), as in `for evt := range node.Events()`.
FairRecvSpec == FairSpec /\ \A ch \in Chans : WF_vars(UserRecv(ch))

\* ------------------------------------------------------------ properties

\* The caller w is inside the fan-out of a write primitive: it has the
\* mutex and has not yet run its deferred Unlock.
InFanOut(w) == wpc[w] \in {"send", "acks"}

\* The step is the return of the call of w.
Returns(w) == wpc[w] = "acks" /\ wpc'[w] \in {"idle", "done"}

\* An item is on the write queue of ch, or written and not yet acknowledged.
InFlight(ch) == writeChan[ch] # <<>> \/ tpc[ch] = "ack"

AllTasksTerminated ==
    /\ \A ch \in Chans : rpc[ch] \in {"none", "done"} /\ tpc[ch] \in {"none", "done"}
    /\ \A a \in Accepters : apc[a] = "done"
    /\ wpc["hb"] = "done"
    /\ wg = 0

\* C1: the event stream is closed at most once, it has been closed exactly
\* once when Close has returned, and when it is closed every channel task,
\* accepter task and the heartbeat task have terminated (the wait group is 0).
C1_EventStreamClosedOnceAfterJoin ==
    /\ eventClosed <= 1
    /\ CloseReturned => eventClosed = 1
    /\ eventClosed >= 1 => AllTasksTerminated

\* C1 witness: Close has returned, the stream is closed, and two channels
\* (one of them accepted) had been running.
C1_Witness == CloseReturned /\ eventClosed = 1 /\ nchan = 2 /\ rpc[2] = "done"

\* C2: once Close is called it returns, whether or not the user ever
\* receives from Events().
C2_CloseReturns == CloseCalled ~> CloseReturned

\* C2 witness: Close waits for the tasks while two channels each have an
\* event pending that nobody has received, and the drainer runs.
C2_Witness ==
    /\ CloseAt("wait")
    /\ drainer
    /\ nchan = 2
    /\ \A ch \in Chans : rpc[ch] = "send" /\ recvd[ch] = <<>>

StepRank(name) ==
    CASE name = "hb" -> 1
      [] name = "acc" -> 2
      [] name = "ch" -> 3
      [] name = "drain" -> 4
      [] name = "join" -> 5
      [] name = "closeEv" -> 6

Issued(name) == \E i \in 1..Len(closeLog) : closeLog[i] = name

\* C3: the steps of Close are issued in the order heartbeat, accepters,
\* channels, drainer, join, close of the event stream: a channel is stopped
\* only under the channels mutex and after every accepter has been stopped,
\* the drainer is started only after every registered channel has been
\* stopped and the mutex released, and the stream is closed only after the
\* join.
C3_CloseStepsInOrder ==
    /\ \A i, j \in 1..Len(closeLog) :
         i < j => StepRank(closeLog[i]) <= StepRank(closeLog[j])
    /\ Issued("acc") => Issued("hb")
    /\ clocked => channelsMutex = "close"
    /\ (clocked \/ Issued("ch")) => (hbStop /\ accStop = Accepters)
    /\ Issued("drain") => (hbStop /\ accStop = Accepters /\ ~clocked
                           /\ channels \subseteq nodeClosed)
    /\ Issued("join") => Issued("drain")
    /\ Issued("closeEv") => Issued("join")
    /\ eventClosed >= 1 <=> Issued("closeEv")

\* C3 witness: Close has returned after stopping an accepter and two channels.
C3_Witness ==
    /\ CloseReturned
    /\ closeLog = <<"hb", "acc", "ch", "ch", "drain", "join", "closeEv">>

\* C4: writeAll enqueues exactly once on every channel that is registered
\* when it acquires the mutex, on no other, and returns only after it has
\* received as many tokens as there were such channels.
C4_WriteAllOncePerChannel ==
    /\ [](\A w \in Writers : (InFanOut(w) /\ wop[w].kind = "all") =>
            /\ wtodo[w] \subseteq wsnap[w]
            /\ \A c \in Chans :
                 wsent[w][c] = IF c \in wsnap[w] \ wtodo[w] THEN 1 ELSE 0)
    /\ [][\A w \in Writers : (Returns(w) /\ wop[w].kind = "all") =>
            /\ \A c \in Chans : wsent[w][c] = IF c \in wsnap[w] THEN 1 ELSE 0
            /\ wrecv[w] = Cardinality(wsnap[w])]_vars

\* C4 witness: a writeAll over two registered channels has received both
\* tokens and is about to return.
C4_Witness ==
    \E w \in Writers :
        /\ wpc[w] = "acks"
        /\ wop[w].kind = "all"
        /\ wsnap[w] = {1, 2}
        /\ wrecv[w] = 2

\* C5: writeTo on a registered channel enqueues on that channel once and on
\* no other, returns only after one token, and no step taken while the call
\* is in progress changes the write queue of another channel.
C5_WriteToThatChannelOnly ==
    /\ [](\A w \in Writers : (InFanOut(w) /\ wop[w].kind = "to") =>
            /\ \A c \in Chans \ {wop[w].arg} : wsent[w][c] = 0
            /\ wsent[w][wop[w].arg] <= 1)
    /\ [][\A w \in Writers : (InFanOut(w) /\ wop[w].kind = "to") =>
            /\ \A c \in Chans \ {wop[w].arg} : writeChan'[c] = writeChan[c]
            /\ (Returns(w) /\ wop[w].arg \in wsnap[w]) =>
                 (wsent[w][wop[w].arg] = 1 /\ wrecv[w] = 1)]_vars

\* C5 witness: a writeTo on one of two registered channels has received its
\* token and is about to return.
C5_Witness ==
    \E w \in Writers :
        /\ wpc[w] = "acks"
        /\ wop[w].kind = "to"
        /\ wop[w].arg \in wsnap[w]
        /\ Cardinality(wsnap[w]) = 2
        /\ wrecv[w] = 1

\* C6: writeExcept enqueues exactly once on every registered channel other
\* than the excepted one, never on the excepted one, and returns after as
\* many tokens as channels it enqueued to: one less than the registered
\* channels when the excepted one is registered, as many otherwise.
C6_WriteExceptSkipsChannel ==
    /\ [](\A w \in Writers : (InFanOut(w) /\ wop[w].kind = "except") =>
            /\ wsent[w][wop[w].arg] = 0
            /\ \A c \in Chans \ {wop[w].arg} :
                 wsent[w][c] = IF c \in wsnap[w] \ wtodo[w] THEN 1 ELSE 0)
    /\ [][\A w \in Writers : (Returns(w) /\ wop[w].kind = "except") =>
            /\ \A c \in Chans \ {wop[w].arg} :
                 wsent[w][c] = IF c \in wsnap[w] THEN 1 ELSE 0
            /\ wrecv[w] = SentTotal(w)
            /\ wrecv[w] = IF wop[w].arg \in wsnap[w]
                            THEN Cardinality(wsnap[w]) - 1
                            ELSE Cardinality(wsnap[w])]_vars

\* C6 witness: a writeExcept that excepts one of two registered channels has
\* received its one token and is about to return.
C6_Witness ==
    \E w \in Writers :
        /\ wpc[w] = "acks"
        /\ wop[w].kind = "except"
        /\ wop[w].arg \in wsnap[w]
        /\ Cardinality(wsnap[w]) = 2
        /\ wrecv[w] = 1

\* C7: a caller inside a fan-out holds the channels mutex, at most one
\* fan-out is in progress, and the channel set is the one the fan-out found
\* when it took the mutex: no channel has been added.
C7_FanOutHoldsMutex ==
    /\ \A w \in Writers : InFanOut(w) =>
         (channelsMutex = w /\ channels \subseteq wsnap[w])
    /\ Cardinality({w \in Writers : InFanOut(w)}) <= 1

\* C7 witness: the heartbeat is inside a fan-out over two channels with an
\* item not yet acknowledged while the user waits for the mutex in a write
\* primitive.
C7_Witness ==
    /\ InFanOut("hb")
    /\ \E ch \in Chans : InFlight(ch)
    /\ wpc["user"] = "lock"
    /\ nchan = 2

\* C8: while an item is enqueued and not yet acknowledged its channel stays
\* registered and is not stopped by Close, and a channel that has left the
\* channel set has no item enqueued or unacknowledged.
C8_NoRemovalBeforeAck ==
    /\ [](\A ch \in Chans : InFlight(ch) => ch \in channels)
    /\ [][\A ch \in Chans : InFlight(ch) =>
            /\ ch \in channels'
            /\ (ch \in nodeClosed' <=> ch \in nodeClosed)]_vars

\* C8 witness: an item written on a failed transport waits for its
\* acknowledgement while the read task of the channel is about to close the
\* channel and Close is about to stop the channels.
C8_Witness ==
    \E ch \in Chans :
        /\ tpc[ch] = "ack"
        /\ rwc[ch] # "open"
        /\ rpc[ch] = "read"
        /\ CloseAt("chs")
        /\ ~clocked

\* The transport write of the write task of ch has failed and its token is
\* not yet received.
FailedWritePending(ch) == tpc[ch] = "ack" /\ twrote[ch] = "failed"

\* C9: a transport write that fails is followed by the completion token; a
\* primitive waiting for tokens while a write has failed returns and releases
\* the mutex; and the channel whose write failed delivers ChannelClose.
C9_FailedWriteStillAcknowledged ==
    /\ [][\A ch \in Chans :
            (Len(writeChan'[ch]) < Len(writeChan[ch]) /\ rwc'[ch] # "open")
                => FailedWritePending(ch)']_vars
    /\ \A w \in Writers :
         (InFanOut(w) /\ \E ch \in Chans : FailedWritePending(ch)) ~> ~InFanOut(w)
    /\ \A ch \in Chans :
         FailedWritePending(ch) ~> (rpc[ch] = "done" /\ Last(recvd[ch]) = CloseEvent)

\* C9 witness: a fan-out over two channels waits for its tokens, the write
\* on one of them has failed and its token is pending.
C9_Witness ==
    \E w \in Writers : \E ch \in Chans :
        /\ wpc[w] = "acks"
        /\ Cardinality(wsnap[w]) = 2
        /\ FailedWritePending(ch)
        /\ ch \notin nodeClosed
        /\ titem[ch] = w

\* The events of ch that have been handed over: all it produced but the one
\* its read task is blocked sending.
HandedOver(ch) ==
    SubSeq(produced[ch], 1, Len(produced[ch]) - (IF rpc[ch] = "send" THEN 1 ELSE 0))

\* C10: the events received from a channel are, in order, the events its
\* read task produced.
C10_EventsInProductionOrder == \A ch \in Chans : recvd[ch] = HandedOver(ch)

\* C10 witness: events of the channel created second have been received in
\* order while the first event of the channel created first is still pending.
C10_Witness ==
    /\ rpc[1] = "send"
    /\ recvd[1] = <<>>
    /\ Len(recvd[2]) >= 2

\* ---------------------------------------------------------------- NewNode

\* What tconf.init() of an endpoint gives: a single channel, an accepter of
\* channels, or an error.
EndpointKinds == {"single", "accepter", "failing"}

EndpointLists == UNION {[1..n -> EndpointKinds] : n \in 0..MaxEndpoints}

NodeConfs ==
    [OutSystemId : 0..MaxSystemId, Endpoints : EndpointLists,
     OutSignatureKey : BOOLEAN, OutVersion : {"V1", "V2"},
     HeartbeatDisable : BOOLEAN]

\* Everything of the running Node but n.channels.
runVars == <<channelsMutex, wg, eventClosed, nchan, closeVars, stopVars, apc,
             readVars, taskVars, rwc, callVars>>

\* No task of the Node runs, no call is in progress.
NotRunning ==
    /\ channelsMutex = Free
    /\ wg = 0
    /\ eventClosed = 0
    /\ nchan = 0
    /\ cpc = 0
    /\ ctodo = {}
    /\ closeLog = <<>>
    /\ clocked = FALSE
    /\ drainer = FALSE
    /\ hbStop = FALSE
    /\ accStop = {}
    /\ apc = [a \in Accepters |-> "none"]
    /\ rpc = [c \in Chans |-> "none"]
    /\ tpc = [c \in Chans |-> "none"]
    /\ titem = [c \in Chans |-> "none"]
    /\ twrote = [c \in Chans |-> "none"]
    /\ rwc = [c \in Chans |-> "open"]
    /\ nodeClosed = {}
    /\ writeChan = [c \in Chans |-> <<>>]
    /\ wcClosed = {}
    /\ produced = [c \in Chans |-> <<>>]
    /\ recvd = [c \in Chans |-> <<>>]
    /\ wpc = [w \in Writers |-> "idle"]
    /\ wop = [w \in Writers |-> IdleOp]
    /\ wsnap = [w \in Writers |-> {}]
    /\ wtodo = [w \in Writers |-> {}]
    /\ wsent = [w \in Writers |-> NoSent]
    /\ wrecv = [w \in Writers |-> 0]

\* NewNode is called with some NodeConf; channels and accepters are named by
\* the index of their endpoint.
NewNodeInit ==
    /\ conf \in NodeConfs
    /\ npc = "validate"
    /\ nidx = 1
    /\ channels = {}
    /\ channelAccepters = {}
    /\ nodeHeartbeat = FALSE
    /\ closedAtInit = {}
    /\ spc = 1
    /\ startLog = <<>>
    /\ nret = "none"
    /\ NotRunning
    /\ SignatureIdle

\* Variant: NewNode accepts the system id 0.
SystemIdAlwaysValid(c) == FALSE

\* conf.OutSystemId < 1
SystemIdInvalid(c) == c.OutSystemId < 1

\* len(conf.Endpoints) == 0
NoEndpoints(c) == Len(c.Endpoints) = 0

\* conf.OutSignatureKey != nil && conf.OutVersion != V2
SignatureWithoutV2(c) == c.OutSignatureKey /\ c.OutVersion # "V2"

\* The checks at the head of NewNode, in their order.
NewNodeValidate ==
    /\ npc = "validate"
    /\ IF SystemIdInvalid(conf)
         THEN nret' = "errSystemId" /\ npc' = "returned"
         ELSE IF NoEndpoints(conf)
         THEN nret' = "errEndpoints" /\ npc' = "returned"
         ELSE IF SignatureWithoutV2(conf)
         THEN nret' = "errSignature" /\ npc' = "returned"
         ELSE nret' = nret /\ npc' = "endpoints"
    /\ UNCHANGED <<channels, runVars, conf, nidx, channelAccepters, nodeHeartbeat,
                   closedAtInit, spc, startLog>>
    /\ UNCHANGED sigVars

\* The loop over conf.Endpoints is at an endpoint of the given kind.
EndpointIs(kind) ==
    /\ npc = "endpoints"
    /\ nidx <= Len(conf.Endpoints)
    /\ conf.Endpoints[nidx] = kind

\* Variant: on an endpoint error only the channels are closed.
ClosedOnInitErrorChannelsOnly(chs, cas) == chs

\* On an endpoint error: ca.close() for every channel, then for every accepter.
ClosedOnInitError(chs, cas) == chs \cup cas

\* tconf.init() fails: what was created is closed and the error returned.
EndpointInitFails ==
    /\ EndpointIs("failing")
    /\ closedAtInit' = ClosedOnInitError(channels, channelAccepters)
    /\ nret' = "errEndpoint"
    /\ npc' = "returned"
    /\ UNCHANGED <<channels, runVars, conf, nidx, channelAccepters, nodeHeartbeat,
                   spc, startLog>>
    /\ UNCHANGED sigVars

\* newChannelAccepter and n.channelAccepters[ca] = struct{}{}
EndpointAccepter ==
    /\ EndpointIs("accepter")
    /\ channelAccepters' = channelAccepters \cup {nidx}
    /\ nidx' = nidx + 1
    /\ UNCHANGED <<channels, runVars, conf, npc, nodeHeartbeat, closedAtInit, spc,
                   startLog, nret>>
    /\ UNCHANGED sigVars

\* n.createChannel for a single-channel endpoint.
EndpointSingle ==
    /\ EndpointIs("single")
    /\ channels' = channels \cup {nidx}
    /\ nidx' = nidx + 1
    /\ UNCHANGED <<runVars, conf, npc, channelAccepters, nodeHeartbeat, closedAtInit,
                   spc, startLog, nret>>
    /\ UNCHANGED sigVars

\* n.nodeHeartbeat = newNodeHeartbeat(n), nil when heartbeats are disabled;
\* then n.start() is entered.
NewHeartbeat ==
    /\ npc = "endpoints"
    /\ nidx > Len(conf.Endpoints)
    /\ nodeHeartbeat' = ~conf.HeartbeatDisable
    /\ npc' = "start"
    /\ UNCHANGED <<channels, runVars, conf, nidx, channelAccepters, closedAtInit,
                   spc, startLog, nret>>
    /\ UNCHANGED sigVars

\* Variant: start starts the accepters before the channels.
StartProgramAcceptersFirst == <<"heartbeat", "accepters", "channels">>

\* The statements of start in the order the function runs them.
StartProgram == StartOrder

\* start is about to run the step called name.
StartAt(name) ==
    /\ npc = "start"
    /\ spc \in 1..Len(StartProgram)
    /\ StartProgram[spc] = name

Started(kind, x) == \E i \in 1..Len(startLog) : startLog[i] = <<kind, x>>

\* if n.nodeHeartbeat != nil { n.nodeHeartbeat.start() }
StartHeartbeat ==
    /\ StartAt("heartbeat")
    /\ startLog' = IF nodeHeartbeat THEN Append(startLog, <<"heartbeat", 0>>)
                                    ELSE startLog
    /\ spc' = spc + 1
    /\ UNCHANGED <<channels, runVars, conf, npc, nidx, channelAccepters,
                   nodeHeartbeat, closedAtInit, nret>>
    /\ UNCHANGED sigVars

\* ch.start() for one channel of the range over n.channels.
StartChannel(ch) ==
    /\ StartAt("channels")
    /\ ch \in channels
    /\ ~Started("channel", ch)
    /\ startLog' = Append(startLog, <<"channel", ch>>)
    /\ UNCHANGED <<channels, runVars, conf, npc, nidx, channelAccepters,
                   nodeHeartbeat, closedAtInit, spc, nret>>
    /\ UNCHANGED sigVars

\* The range over n.channels ends.
StartChannelsEnd ==
    /\ StartAt("channels")
    /\ \A ch \in channels : Started("channel", ch)
    /\ spc' = spc + 1
    /\ UNCHANGED <<channels, runVars, conf, npc, nidx, channelAccepters,
                   nodeHeartbeat, closedAtInit, startLog, nret>>
    /\ UNCHANGED sigVars

\* ca.start() for one accepter of the range over n.channelAccepters.
StartAccepter(ca) ==
    /\ StartAt("accepters")
    /\ ca \in channelAccepters
    /\ ~Started("accepter", ca)
    /\ startLog' = Append(startLog, <<"accepter", ca>>)
    /\ UNCHANGED <<channels, runVars, conf, npc, nidx, channelAccepters,
                   nodeHeartbeat, closedAtInit, spc, nret>>
    /\ UNCHANGED sigVars

\* The range over n.channelAccepters ends.
StartAcceptersEnd ==
    /\ StartAt("accepters")
    /\ \A ca \in channelAccepters : Started("accepter", ca)
    /\ spc' = spc + 1
    /\ UNCHANGED <<channels, runVars, conf, npc, nidx, channelAccepters,
                   nodeHeartbeat, closedAtInit, startLog, nret>>
    /\ UNCHANGED sigVars

\* The channel a started accepter registers for its first peer.
AcceptedChannel(ca) == Len(conf.Endpoints) + ca

\* An accepter that has been started gets a peer and calls createChannel.
AccepterCreatesChannel(ca) ==
    /\ Started("accepter", ca)
    /\ AcceptedChannel(ca) \notin channels
    /\ channels' = channels \cup {AcceptedChannel(ca)}
    /\ UNCHANGED <<runVars, newNodeVars>>
    /\ UNCHANGED sigVars

\* start has returned: return n, nil.
NewNodeReturn ==
    /\ npc = "start"
    /\ spc = Len(StartProgram) + 1
    /\ nret' = "node"
    /\ npc' = "returned"
    /\ UNCHANGED <<channels, runVars, conf, nidx, channelAccepters, nodeHeartbeat,
                   closedAtInit, spc, startLog>>
    /\ UNCHANGED sigVars

NewNodeNext ==
    \/ NewNodeValidate
    \/ EndpointInitFails
    \/ EndpointAccepter
    \/ EndpointSingle
    \/ NewHeartbeat
    \/ StartHeartbeat
    \/ \E ch \in 1..MaxEndpoints : StartChannel(ch)
    \/ StartChannelsEnd
    \/ \E ca \in 1..MaxEndpoints : StartAccepter(ca)
    \/ StartAcceptersEnd
    \/ \E ca \in 1..MaxEndpoints : AccepterCreatesChannel(ca)
    \/ NewNodeReturn

NewNodeSpec == NewNodeInit /\ [][NewNodeNext]_vars

\* The first endpoint of the list whose initialisation fails, Len + 1 if none.
FirstFailing(eps) ==
    IF \E i \in 1..Len(eps) : eps[i] = "failing"
      THEN CHOOSE i \in 1..Len(eps) :
             eps[i] = "failing" /\ \A j \in 1..(i - 1) : eps[j] # "failing"
      ELSE Len(eps) + 1

\* The channels created from the endpoints of the configuration.
ConstructionChannels == channels \cap (1..Len(conf.Endpoints))

NothingStarted == startLog = <<>> /\ ~nodeHeartbeat

\* C11: NewNode called with the system id 0, with no endpoint, or with an
\* outgoing signature key and a version other than V2 creates and starts
\* nothing and returns an error; called with none of these and endpoints that
\* all initialise, it returns the Node with the heartbeat (unless disabled),
\* every channel and every accepter started.
C11_NewNodeValidatesConf ==
    LET rejected == \/ conf.OutSystemId = 0
                    \/ Len(conf.Endpoints) = 0
                    \/ (conf.OutSignatureKey /\ conf.OutVersion # "V2")
    IN  /\ rejected =>
            /\ NothingStarted
            /\ channels = {} /\ channelAccepters = {}
            /\ nret \in {"none", "errSystemId", "errEndpoints", "errSignature"}
            /\ npc \in {"validate", "returned"}
            /\ npc = "returned" => nret # "none"
        /\ (~rejected /\ npc = "returned"
              /\ FirstFailing(conf.Endpoints) > Len(conf.Endpoints)) =>
            /\ nret = "node"
            /\ nodeHeartbeat = ~conf.HeartbeatDisable
            /\ nodeHeartbeat => Started("heartbeat", 0)
            /\ \A i \in 1..Len(conf.Endpoints) :
                 IF conf.Endpoints[i] = "single"
                   THEN i \in channels /\ Started("channel", i)
                   ELSE i \in channelAccepters /\ Started("accepter", i)

\* C11 witness: NewNode has returned an error for a signature key with V1,
\* the system id and the endpoints being in order.
C11_Witness ==
    /\ npc = "returned"
    /\ nret = "errSignature"
    /\ conf.OutSystemId >= 1
    /\ Len(conf.Endpoints) >= 1

\* C19: when the initialisation of the k-th endpoint fails, the channels and
\* accepters created from the endpoints before it, and they only, have been
\* closed, nothing has been started, no heartbeat has been created, and
\* NewNode returns the error of the endpoint.
C19_EndpointErrorClosesCreated ==
    LET k == FirstFailing(conf.Endpoints)
    IN  /\ nret = "errEndpoint" =>
            /\ k <= Len(conf.Endpoints)
            /\ nidx = k
            /\ channels \cup channelAccepters = 1..(k - 1)
            /\ closedAtInit = 1..(k - 1)
            /\ NothingStarted
            /\ npc = "returned"
        /\ (npc = "returned" /\ k <= Len(conf.Endpoints)
              /\ nret \notin {"errSystemId", "errEndpoints", "errSignature"}) =>
            nret = "errEndpoint"
        /\ closedAtInit # {} => nret = "errEndpoint"

\* C19 witness: the third endpoint has failed after a channel and an accepter
\* had been created, and both have been closed.
C19_Witness ==
    /\ nret = "errEndpoint"
    /\ nidx = 3
    /\ channels # {}
    /\ channelAccepters # {}
    /\ closedAtInit = {1, 2}

StartRank(kind) ==
    CASE kind = "heartbeat" -> 1
      [] kind = "channel" -> 2
      [] kind = "accepter" -> 3

\* C20: start starts the heartbeat emitter first, then every channel created
\* at construction, then the accepters: when an accepter has been started, or
\* a channel it created is registered, no construction-time channel is still
\* to be started.
C20_ChannelsStartedBeforeAccepters ==
    /\ \A i, j \in 1..Len(startLog) :
         i < j => StartRank(startLog[i][1]) <= StartRank(startLog[j][1])
    /\ (nodeHeartbeat /\ startLog # <<>>) => startLog[1] = <<"heartbeat", 0>>
    /\ (\E ca \in channelAccepters : Started("accepter", ca)) =>
         \A ch \in ConstructionChannels : Started("channel", ch)
    /\ channels # ConstructionChannels =>
         \A ch \in ConstructionChannels : Started("channel", ch)

\* C20 witness: a channel created by a started accepter is registered next to
\* two construction-time channels, with the heartbeat enabled.
C20_Witness ==
    /\ nodeHeartbeat
    /\ Cardinality(ConstructionChannels) = 2
    /\ channels # ConstructionChannels

\* ------------------------------------------------- signature timestamps

\* The Node plays no part: the signing state of one channel is on its own.
NodeAside == NewNodeDone /\ channels = {} /\ NotRunning

Max(a, b) == IF a >= b THEN a ELSE b

\* Variant: the transmit timestamp is the wall clock.
TxTimestampWallClock(now, last) == now

\* The transmit timestamp of a signed frame: max(now, last_tx_timestamp + 1).
TxTimestamp(now, last) == Max(now, last + 1)

SignInit ==
    /\ NodeAside
    /\ sigNow \in 0..MaxClock
    /\ lastTxTimestamp = 0
    /\ txLog = <<>>
    /\ hwm = [t \in Triples |-> 0]
    /\ lastRx = NoFrame

\* The wall clock moves, forwards or backwards.
ClockMoves ==
    /\ sigNow' \in (0..MaxClock) \ {sigNow}
    /\ UNCHANGED <<channels, runVars, newNodeVars, lastTxTimestamp, txLog, hwm, lastRx>>

\* The write task signs and writes a V2 frame.
WriteSignedFrame ==
    /\ Len(txLog) < MaxSigned
    /\ lastTxTimestamp' = TxTimestamp(sigNow, lastTxTimestamp)
    /\ txLog' = Append(txLog, [ts |-> TxTimestamp(sigNow, lastTxTimestamp),
                               now |-> sigNow])
    /\ UNCHANGED <<channels, runVars, newNodeVars, sigNow, hwm, lastRx>>

SignNext == ClockMoves \/ WriteSignedFrame

SignSpec == SignInit /\ [][SignNext]_vars

\* C12: the signature timestamps of the frames written on the channel are
\* strictly increasing in the order of the writes, whatever the wall clock
\* did between them, and each equals max(now, previous timestamp + 1).
C12_TxTimestampsStrictlyIncrease ==
    /\ \A i, j \in 1..Len(txLog) : i < j => txLog[i].ts < txLog[j].ts
    /\ \A i \in 1..Len(txLog) :
         LET prev == IF i = 1 THEN 0 ELSE txLog[i - 1].ts
         IN  /\ txLog[i].ts >= txLog[i].now
             /\ txLog[i].ts >= prev + 1
             /\ txLog[i].ts \in {txLog[i].now, prev + 1}
    /\ lastTxTimestamp = IF txLog = <<>> THEN 0 ELSE txLog[Len(txLog)].ts

\* C12 witness: three frames written, the second with the clock standing
\* still and the third with the clock gone backwards.
C12_Witness ==
    /\ Len(txLog) = 3
    /\ txLog[1].now > 1
    /\ txLog[2].now = txLog[1].now
    /\ txLog[3].now < txLog[2].now

\* Variant: the timestamp of an inbound frame is not compared with the mark.
ReplayNotChecked(ts, mark) == FALSE

\* The timestamp check: strictly less than the high-water mark.
Replayed(ts, mark) == ts < mark

\* What the frame codec makes of an inbound V2 frame on a channel with a
\* verification key.
Verdict(triple, ts, signed, sigOk) ==
    IF ~signed THEN "SignatureMissing"
    ELSE IF ~sigOk THEN "SignatureInvalid"
    ELSE IF Replayed(ts, hwm[triple]) THEN "SignatureReplay"
    ELSE "Frame"

VerifyInit ==
    /\ NodeAside
    /\ SignatureIdle

\* The read task parses an inbound frame and verifies its signature; an
\* accepted frame raises the high-water mark of its triple.
ReadSignedFrame(triple, ts, signed, sigOk) ==
    /\ lastRx' = [triple |-> triple, ts |-> ts, signed |-> signed, sigOk |-> sigOk,
                  verdict |-> Verdict(triple, ts, signed, sigOk)]
    /\ hwm' = IF Verdict(triple, ts, signed, sigOk) = "Frame"
                THEN [hwm EXCEPT ![triple] = ts] ELSE hwm
    /\ UNCHANGED <<channels, runVars, newNodeVars, sigNow, lastTxTimestamp, txLog>>

VerifyNext ==
    \E triple \in Triples : \E ts \in 0..MaxClock : \E signed, sigOk \in BOOLEAN :
        ReadSignedFrame(triple, ts, signed, sigOk)

VerifySpec == VerifyInit /\ [][VerifyNext]_vars

\* C13: a signed inbound frame with a timestamp strictly below the
\* high-water mark of its triple is rejected as SignatureReplay and no mark
\* changes; an accepted frame sets the mark of its triple to its timestamp
\* and changes no other mark; no mark ever decreases.
C13_ReplayRejectedMarksKept ==
    [][LET f == lastRx'
       IN  /\ (f.signed /\ f.sigOk /\ f.ts < hwm[f.triple]) =>
                (f.verdict = "SignatureReplay" /\ hwm' = hwm)
           /\ f.verdict = "SignatureReplay" => f.ts < hwm[f.triple]
           /\ f.verdict # "Frame" => hwm' = hwm
           /\ f.verdict = "Frame" =>
                /\ hwm'[f.triple] = f.ts
                /\ \A t \in Triples \ {f.triple} : hwm'[t] = hwm[t]
           /\ \A t \in Triples : hwm'[t] >= hwm[t]]_vars

\* C13 witness: a frame with the timestamp T - 1 has been rejected as a
\* replay after one with T was accepted for the same triple, while another
\* triple has a mark of its own.
C13_Witness ==
    /\ lastRx.verdict = "SignatureReplay"
    /\ hwm[lastRx.triple] = lastRx.ts + 1
    /\ \E t \in Triples \ {lastRx.triple} : hwm[t] > hwm[lastRx.triple]

\* ------------------------------------------- properties of the run, continued

\* A task that can send on n.eventChan: a read task that has been created
\* and has not returned.
CanSendEvent(ch) == rpc[ch] \in {"new", "send", "read"}

\* C14: when close(n.eventChan) runs, every read task, every accepter and the
\* heartbeat emitter have returned; once the stream is closed no task that
\* can send an event exists and no event is produced or handed over.
C14_NoSendAfterStreamClosed ==
    /\ [](eventClosed >= 1 => \A ch \in Chans : ~CanSendEvent(ch))
    /\ [][eventClosed' > eventClosed =>
            /\ \A ch \in Chans : ~CanSendEvent(ch)
            /\ \A a \in Accepters : apc[a] = "done"
            /\ wpc["hb"] = "done"]_vars
    /\ [][eventClosed >= 1 => (produced' = produced /\ recvd' = recvd)]_vars

\* C14 witness: the stream is closed after a channel handed over its
\* ChannelOpen, a frame and its ChannelClose, and a second channel its own.
C14_Witness ==
    /\ eventClosed = 1
    /\ nchan = 2
    /\ \E ch \in Chans : Len(recvd[ch]) = 3

\* The number of channels a call of writeAll or writeExcept enqueues to.
FanOutSize(w) ==
    IF wop[w].kind = "except" THEN Cardinality(wsnap[w] \ {wop[w].arg})
                              ELSE Cardinality(wsnap[w])

\* C15: in writeAll and writeExcept over N channels no token is received
\* before the N enqueues have been made, the call receives exactly N tokens,
\* and it releases the mutex, which it holds throughout, only with the N-th
\* token received; with N = 0 it enqueues and receives nothing.
C15_EnqueuesThenTokensThenUnlock ==
    /\ [](\A w \in Writers : (InFanOut(w) /\ wop[w].kind \in {"all", "except"}) =>
            /\ channelsMutex = w
            /\ SentTotal(w) <= FanOutSize(w)
            /\ wrecv[w] <= SentTotal(w)
            /\ wrecv[w] > 0 => (wtodo[w] = {} /\ SentTotal(w) = FanOutSize(w)))
    /\ [][\A w \in Writers : (InFanOut(w) /\ wop[w].kind \in {"all", "except"}) =>
            /\ wrecv'[w] > wrecv[w] => SentTotal(w) = FanOutSize(w)
            /\ channelsMutex' # w =>
                 (SentTotal(w) = FanOutSize(w) /\ wrecv[w] = FanOutSize(w))]_vars

\* C15 witness: a writeAll of the user over two registered channels has made
\* its two enqueues and received the first of its two tokens.
C15_Witness ==
    /\ wpc["user"] = "acks"
    /\ wop["user"].kind = "all"
    /\ FanOutSize("user") = 2
    /\ SentTotal("user") = 2
    /\ wrecv["user"] = 1

\* C16: a writeAll that has the mutex reaches its return.
C16_FanOutTerminates ==
    \A w \in Writers : (InFanOut(w) /\ wop[w].kind = "all") ~> ~InFanOut(w)

\* C16 witness: a writeAll over two channels has still an enqueue to make
\* while the channel it enqueued to first is blocked sending its token.
C16_Witness ==
    \E w \in Writers : \E ch \in Chans :
        /\ wpc[w] = "send"
        /\ wop[w].kind = "all"
        /\ Cardinality(wsnap[w]) = 2
        /\ wtodo[w] # {}
        /\ tpc[ch] = "ack"
        /\ titem[ch] = w

\* C17: a token that a call receives is sent by a channel for an item this
\* call enqueued on it; when no caller is inside a fan-out no item is
\* enqueued or unacknowledged and no write task is sending a token.
C17_TokensBelongToTheCall ==
    /\ []((\A w \in Writers : ~InFanOut(w)) => \A ch \in Chans : ~InFlight(ch))
    /\ [][\A w \in Writers : \A ch \in Chans :
            (wrecv'[w] = wrecv[w] + 1 /\ tpc[ch] = "ack" /\ tpc'[ch] # "ack") =>
                (titem[ch] = w /\ wsent[w][ch] = 1)]_vars

\* C17 witness: the heartbeat's writeAll over two channels has received one
\* token, the other channel is sending its token for the heartbeat's item,
\* and a call of the user waits for the mutex.
C17_Witness ==
    /\ wpc["hb"] = "acks"
    /\ wrecv["hb"] = 1
    /\ Cardinality(wsnap["hb"]) = 2
    /\ \E ch \in Chans : tpc[ch] = "ack" /\ titem[ch] = "hb"
    /\ wpc["user"] = "lock"

\* The call of w is a writeTo with a channel that was not registered when it
\* took the mutex.
WriteToUnregistered(w) ==
    InFanOut(w) /\ wop[w].kind = "to" /\ wop[w].arg \notin wsnap[w]

\* C18: a writeTo with a channel that is not in n.channels enqueues nothing,
\* receives no token, and while it runs the channel set and the write
\* queues stay as they are and no write task takes an item.
C18_WriteToUnregisteredIsNoOp ==
    /\ [](\A w \in Writers : WriteToUnregistered(w) =>
            (wpc[w] = "acks" /\ wtodo[w] = {} /\ SentTotal(w) = 0 /\ wrecv[w] = 0))
    /\ [][\A w \in Writers : WriteToUnregistered(w) =>
            (channels' = channels /\ writeChan' = writeChan /\ titem' = titem)]_vars

\* C18 witness: a writeTo is about to return whose channel has been removed
\* from n.channels while another channel is registered.
C18_Witness ==
    \E w \in Writers :
        /\ WriteToUnregistered(w)
        /\ wop[w].arg \in wcClosed
        /\ wsnap[w] # {}

====
